---------------------------- MODULE Spec2Model ----------------------------
(***************************************************************************)
(* myphysicslab.lab.util.Timer (src/src/lab/view/DisplayLine.js, lines     *)
(* 268-468): a periodic callback scheduler riding on requestAnimationFrame *)
(* or setTimeout; myphysicslab.lab.view.DisplayLine (the same file, lines  *)
(* 15-252); and myphysicslab.sims.roller.PathObserver                      *)
(* (src/src/sims/roller/PathObserver.js).  The three do not touch one      *)
(* another's state: each has its own specifications.                       *)
(*                                                                         *)
(* Time is counted in whole units of 1e-7 s, the epsilon that startFiring  *)
(* subtracts from the first baseline, so Eps is one unit and the           *)
(* arithmetic of the handler is exact.  NaN is the record NaN; a number x  *)
(* is Num(x).  Handles given out by the scheduling primitive are the       *)
(* positive integers in increasing order; Undefined (0) is no handle.      *)
(*                                                                         *)
(* The user callback is a function of the program that uses the Timer.  It *)
(* may call the Timer's public methods while it runs; Fns lists the        *)
(* callbacks the model installs.  A callback that calls into the Timer     *)
(* does so when its own flag "armed" is set and clears the flag first, as  *)
(* a callback that restarted the Timer on every invocation would never     *)
(* return; the program may set the flag again (Rearm).                     *)
(***************************************************************************)
EXTENDS Integers, FiniteSets, Sequences, TLC

VARIABLES
  period_,      \* Timer.period_
  firing_,      \* Timer.firing_
  timeoutID_,   \* Timer.timeoutID_ : a handle, or Undefined
  callBack_,    \* Timer.callBack_ : a member of Fns, or Null
  fired_sys_,   \* Timer.fired_sys_ : Num(t) or NaN
  delta_,       \* Timer.delta_
  scheduled,    \* the primitive: handles scheduled, not yet fired, not cancelled
  cancelled,    \* the primitive: handles cancelled before they fired, when
                \* it keeps them (keepsCancelled)
  keepsCancelled, \* the primitive is one driven by hand, which can still run
                  \* the handler of a tick that was cancelled
  nextID,       \* the primitive: the next handle it gives out
  now,          \* the clock read by Util.systemTime()
  armed,        \* the user callback's own state: it has not yet called the Timer
  deltaPeriod,  \* history: period_ as it was when delta_ was last assigned
  everNonzero,  \* history: period_ has been non-zero at some time
  stoppedOutside, \* history: stopFiring() was called while firing, from outside
                  \* the callback, and startFiring() has not been called since
  last,         \* history: what the last operation was and did
  tickD,        \* SpecFixed: the primitive's fixed tick interval d
  t0,           \* SpecFixed: the clock at startFiring
  nInv,         \* SpecFixed: callback invocations after the first
  tickNo,       \* SpecFixed: primitive ticks since startFiring
  lastInv,      \* history: when the callback was last invoked and the drift
                \* stored after that invocation (recorded under keepsInv)
  keepsInv,     \* whether lastInv is recorded
  displayList_, \* PathObserver.displayList_ : the DisplayPaths in the SimView's
                \* DisplayList, by number, in the order they were added
  memObjs_,     \* PathObserver.memObjs_
  displayPaths, \* the DisplayPaths made so far: number -> [paths, screenRect]
  observers,    \* the GenericObservers made so far: number -> [dispPath, connected]
  screenRect,   \* SimView.getScreenRect()
  simRect,      \* what simRectSetter_ was last called with, or NoRect
  hasSetter,    \* PathObserver.simRectSetter_ != null
  lastEvent,    \* history: per NumericalPath, the name of the last OBJECT_ADDED
                \* or OBJECT_REMOVED event the SimList broadcast about it
  observed,     \* history: the event of the last observe() call, and whether
                \* the DisplayList already showed its value
  line_,        \* DisplayLine.line_ : the Line displayed, as its start and end point
  lineOp,       \* history: the last operation on the DisplayLine or its Line
  displayLines, \* the DisplayLines made so far, by number: the fields color_,
                \* thickness_, lineDash_, zIndex_ (the empty set when undefined,
                \* else the set of the one value) and proto_
  styleOp       \* history: the field that the last operation set back from a
                \* value to undefined, or "none"

timerAll == <<period_, firing_, timeoutID_, callBack_, fired_sys_, delta_,
          scheduled, cancelled, keepsCancelled, nextID, now, armed, deltaPeriod, everNonzero,
          stoppedOutside, last, tickD, t0, nInv, tickNo, lastInv, keepsInv>>

pathVars == <<displayList_, memObjs_, displayPaths, observers, screenRect,
              simRect, hasSetter, lastEvent, observed>>

lineVars == <<line_, lineOp, displayLines, styleOp>>

vars == <<timerAll, pathVars, lineVars>>

timerVars == <<period_, firing_, timeoutID_, callBack_, fired_sys_, delta_>>

-----------------------------------------------------------------------------
(* Bounds of the model. *)
MaxTime == 2
MaxHandle == 3
MaxPeriod == 2
MaxFixedPeriod == 6
MaxTicks == 9
MaxLivePeriod == 3
MaxLate == 2
MaxDisplayLines == 2
NumPaths == 2
MaxDisplayPaths == 3

(* Program constants. *)
Eps == 1
Undefined == 0

Null == "null"
Fns == {"plain", "stopper", "restarter", "starter", "nuller"}

NaN == [nan |-> TRUE, v |-> 0]
Num(x) == [nan |-> FALSE, v |-> x]

Max(a, b) == IF a >= b THEN a ELSE b

\* the NumericalPaths of the simulation; any other SimObject is NotAPath
Paths == 1..NumPaths
NotAPath == 0
\* the coordinates of the points: even, so that multiply(0.5) is exact
Coords == {0, 2, 4}
Points == Coords \X Coords
Origin == <<0, 0>>
NoLineOp == [op |-> "none", point |-> Origin, flag |-> FALSE]
\* proto_ == null
NoProto == 0
NoStyleOp == "none"
NoRect == [path |-> NotAPath, unit |-> FALSE]
NoEvent == [subject |-> "none", name |-> "none", value |-> NotAPath,
            shown |-> FALSE]

-----------------------------------------------------------------------------
(* The arithmetic of the tick handler and of startFiring. *)

\* now - (this.fired_sys_ - this.delta_); NaN when fired_sys_ is NaN
Elapsed(t, fired, delta) ==
  IF fired.nan THEN NaN ELSE Num(t - (fired.v - delta))

Due_Strict(elapsed, period) == (~elapsed.nan) /\ elapsed.v > period

\* a tick that is one unit early is taken as due
Due_Early(elapsed, period) == (~elapsed.nan) /\ elapsed.v + Eps >= period

\* elapsed >= this.period_; a comparison with NaN is false
Due(elapsed, period) == (~elapsed.nan) /\ elapsed.v >= period

NextDelta_NoCorrection(elapsed, period) == 0

NextDelta_NoModulo(elapsed, period) == IF period > 0 THEN elapsed.v ELSE 0

\* the drift that moves the baseline forward by one period only
NextDelta_OnePeriod(elapsed, period) ==
  IF period > 0 THEN elapsed.v - period ELSE 0

\* this.period_ > 0 ? elapsed % this.period_ : 0   (elapsed >= 0 here)
NextDelta(elapsed, period) == IF period > 0 THEN elapsed.v % period ELSE 0

FirstFired_NoPeriod(t, period) == Num(t - Eps)

\* Util.systemTime() - this.period_ - 1E-7
FirstFired(t, period) == Num(t - period - Eps)

-----------------------------------------------------------------------------
(* The Timer's methods, as functions of a record s that holds the Timer's  *)
(* fields, the primitive, the clock and the bookkeeping of the operation   *)
(* in progress.                                                            *)

\* setTimeout(this.timerCallback_, delay_ms) / requestAnimationFrame(...)
Schedule(s) ==
  [s EXCEPT !.timeoutID_ = s.nextID,
            !.scheduled = @ \cup {s.nextID},
            !.nextID = @ + 1]

StopFiring_KeepBaseline(s) ==
  LET held == s.timeoutID_ # Undefined IN
  [s EXCEPT !.firing_ = FALSE,
            !.scheduled = IF held THEN @ \ {s.timeoutID_} ELSE @,
            !.cancelled = IF held /\ s.timeoutID_ \in s.scheduled /\ s.keeps
                          THEN @ \cup {s.timeoutID_} ELSE @,
            !.timeoutID_ = Undefined]

\* Timer.prototype.stopFiring
StopFiring(s) ==
  LET held == s.timeoutID_ # Undefined IN
  [s EXCEPT !.firing_ = FALSE,
            !.scheduled = IF held THEN @ \ {s.timeoutID_} ELSE @,
            !.cancelled = IF held /\ s.timeoutID_ \in s.scheduled /\ s.keeps
                          THEN @ \cup {s.timeoutID_} ELSE @,
            !.timeoutID_ = Undefined,
            !.fired_sys_ = NaN,
            !.delta_ = 0,
            !.deltaPeriod = s.period_]

SetCallBack_NoStop(s, fn) == [s EXCEPT !.callBack_ = fn]

\* Timer.prototype.setCallBack
SetCallBack(s, fn) == [StopFiring(s) EXCEPT !.callBack_ = fn]

SetPeriod_Unchecked(s, p) == [s EXCEPT !.period_ = p]

\* setPeriod starting the new period at the time of the call
SetPeriod_ResetsBaseline(s, p) ==
  IF p < 0 THEN [s EXCEPT !.threw = TRUE]
           ELSE [s EXCEPT !.period_ = p,
                          !.fired_sys_ = IF @.nan THEN @ ELSE Num(s.now),
                          !.delta_ = 0]

\* Timer.prototype.setPeriod
SetPeriod(s, p) ==
  IF p < 0 THEN [s EXCEPT !.threw = TRUE]
           ELSE [s EXCEPT !.period_ = p]

RECURSIVE TimerCallback(_), StartFiring(_), CallBack(_)

StartFiring_Unguarded(s) ==
  LET f == [s EXCEPT !.idleStartInCb = @ \/ (s.depth > 0 /\ ~s.firing_)] IN
  TimerCallback([f EXCEPT !.firing_ = TRUE,
                          !.delta_ = 0,
                          !.deltaPeriod = s.period_,
                          !.fired_sys_ = FirstFired(s.now, s.period_)])

\* Timer.prototype.startFiring
StartFiring(s) ==
  LET f == [s EXCEPT !.idleStartInCb = @ \/ (s.depth > 0 /\ ~s.firing_)] IN
  IF ~s.firing_
  THEN TimerCallback([f EXCEPT !.firing_ = TRUE,
                               !.delta_ = 0,
                               !.deltaPeriod = s.period_,
                               !.fired_sys_ = FirstFired(s.now, s.period_)])
  ELSE f

\* this.callBack_() : the user's function runs, and may call the Timer
CallBack(s) ==
  LET e == [s EXCEPT !.calls = @ + 1,
                     !.depth = @ + 1,
                     !.maxDepth = Max(@, s.depth + 1),
                     !.idleCall = @ \/ ~s.firing_]
      d == [e EXCEPT !.armed = FALSE, !.reentered = TRUE]
      r == IF ~s.armed \/ s.callBack_ = "plain" THEN e
           ELSE CASE s.callBack_ = "stopper"   -> StopFiring(d)
                  [] s.callBack_ = "restarter" -> StartFiring(StopFiring(d))
                  [] s.callBack_ = "starter"   -> StartFiring(d)
                  [] s.callBack_ = "nuller"    -> SetCallBack(d, Null)
  IN [r EXCEPT !.depth = @ - 1]

\* the tick handler scheduling the next tick only after an invocation
TimerCallback_NoRescheduleOnSkip(s) ==
  IF s.callBack_ = Null THEN s
  ELSE LET elapsed == Elapsed(s.now, s.fired_sys_, s.delta_)
           f == IF s.firing_ THEN 1 ELSE 0
           b == [s EXCEPT !.fruns = @ + f, !.runs = @ + 1]
       IN
       IF Due(elapsed, s.period_)
       THEN LET a == CallBack([b EXCEPT !.fcalls = @ + f]) IN
            Schedule([a EXCEPT !.fired_sys_ = Num(s.now),
                               !.delta_ = NextDelta(elapsed, a.period_),
                               !.deltaPeriod = a.period_])
       ELSE b

\* Timer.prototype.timerCallback
TimerCallback(s) ==
  IF s.callBack_ = Null THEN s
  ELSE LET elapsed == Elapsed(s.now, s.fired_sys_, s.delta_)
           f == IF s.firing_ THEN 1 ELSE 0
           b == [s EXCEPT !.fruns = @ + f, !.runs = @ + 1]
       IN
       IF Due(elapsed, s.period_)
       THEN LET a == CallBack([b EXCEPT !.fcalls = @ + f]) IN
            Schedule([a EXCEPT !.fired_sys_ = Num(s.now),
                               !.delta_ = NextDelta(elapsed, a.period_),
                               !.deltaPeriod = a.period_])
       ELSE Schedule(b)

-----------------------------------------------------------------------------
(* The state as a record at the start of an operation, and the state an    *)
(* operation leaves.                                                       *)

Cur ==
  [period_ |-> period_, firing_ |-> firing_, timeoutID_ |-> timeoutID_,
   callBack_ |-> callBack_, fired_sys_ |-> fired_sys_, delta_ |-> delta_,
   scheduled |-> scheduled, cancelled |-> cancelled, nextID |-> nextID,
   now |-> now, armed |-> armed, deltaPeriod |-> deltaPeriod,
   keeps |-> keepsCancelled,
   calls |-> 0, depth |-> 0, maxDepth |-> 0, idleCall |-> FALSE,
   idleStartInCb |-> FALSE, reentered |-> FALSE, fruns |-> 0, fcalls |-> 0,
   runs |-> 0, threw |-> FALSE]

NoInv == [some |-> FALSE, at |-> 0, delta |-> 0]

NoOp == [op |-> "none", arg |-> 0, fn |-> Null, calls |-> 0, maxDepth |-> 0,
         idleCall |-> FALSE, idleStartInCb |-> FALSE, reentered |-> FALSE,
         fruns |-> 0, fcalls |-> 0, runs |-> 0, threw |-> FALSE,
         preFiring |-> FALSE, preCb |-> FALSE, preElapsed |-> NaN]

CommitFn(r, op, arg, fn) ==
  /\ period_' = r.period_
  /\ firing_' = r.firing_
  /\ timeoutID_' = r.timeoutID_
  /\ callBack_' = r.callBack_
  /\ fired_sys_' = r.fired_sys_
  /\ delta_' = r.delta_
  /\ scheduled' = r.scheduled
  /\ cancelled' = r.cancelled
  /\ nextID' = r.nextID
  /\ deltaPeriod' = r.deltaPeriod
  /\ everNonzero' = (everNonzero \/ r.period_ # 0)
  /\ lastInv' = IF keepsInv /\ r.calls > 0
                THEN [some |-> TRUE, at |-> r.now, delta |-> r.delta_]
                ELSE lastInv
  /\ last' = [op |-> op, arg |-> arg, fn |-> fn, calls |-> r.calls,
              maxDepth |-> r.maxDepth, idleCall |-> r.idleCall,
              idleStartInCb |-> r.idleStartInCb, reentered |-> r.reentered,
              fruns |-> r.fruns, fcalls |-> r.fcalls,
              runs |-> r.runs,
              threw |-> r.threw, preFiring |-> firing_,
              preCb |-> (callBack_ # Null),
              preElapsed |-> Elapsed(r.now, fired_sys_, delta_)]

Commit(r, op, arg) == CommitFn(r, op, arg, Null)

-----------------------------------------------------------------------------
(* The operations: the program calls a public method, the primitive fires  *)
(* a scheduled tick, the clock advances.                                   *)

\* PathObserver (constructor): nothing displayed, nothing remembered
InitPaths ==
  /\ displayList_ = <<>>
  /\ memObjs_ = <<>>
  /\ displayPaths = <<>>
  /\ observers = <<>>
  /\ screenRect = 0
  /\ simRect = NoRect
  /\ hasSetter = FALSE
  /\ lastEvent = [np \in Paths |-> "none"]
  /\ observed = NoEvent

\* new DisplayLine(line): the Line starts and ends at the origin
InitLine ==
  /\ line_ = [start |-> Origin, end |-> Origin]
  /\ lineOp = NoLineOp
  /\ displayLines = <<>>
  /\ styleOp = NoStyleOp

InitTimer ==
  /\ period_ = 0
  /\ firing_ = FALSE
  /\ timeoutID_ = Undefined
  /\ callBack_ = Null
  /\ fired_sys_ = NaN
  /\ delta_ = 0
  /\ scheduled = {}
  /\ cancelled = {}
  /\ nextID = 1
  /\ now = 0
  /\ armed = TRUE
  /\ deltaPeriod = 0
  /\ everNonzero = FALSE
  /\ stoppedOutside = FALSE
  /\ last = NoOp
  /\ lastInv = NoInv
  /\ tickD = 0 /\ t0 = 0 /\ nInv = 0 /\ tickNo = 0

Init ==
  InitTimer /\ InitPaths /\ InitLine /\ keepsCancelled = FALSE /\ keepsInv = FALSE

InitForced ==
  InitTimer /\ InitPaths /\ InitLine /\ keepsCancelled = TRUE /\ keepsInv = FALSE

DoSetPeriod ==
  \E p \in -1..MaxPeriod :
    /\ Commit(SetPeriod(Cur, p), "setPeriod", p)
    /\ UNCHANGED <<lineVars, pathVars, keepsInv, keepsCancelled, now, armed, stoppedOutside, tickD, t0, nInv, tickNo>>

DoSetCallBack ==
  \E fn \in Fns \cup {Null} :
    /\ CommitFn(SetCallBack(Cur, fn), "setCallBack", 0, fn)
    /\ armed' = TRUE
    /\ UNCHANGED <<lineVars, pathVars, keepsInv, keepsCancelled, now, stoppedOutside, tickD, t0, nInv, tickNo>>

DoStartFiring ==
  LET r == StartFiring(Cur) IN
  /\ r.nextID <= MaxHandle + 1
  /\ Commit(r, "startFiring", 0)
  /\ armed' = r.armed
  /\ stoppedOutside' = FALSE
  /\ UNCHANGED <<lineVars, pathVars, keepsInv, keepsCancelled, now, tickD, t0, nInv, tickNo>>

DoStopFiring ==
  LET r == StopFiring(Cur) IN
  /\ Commit(r, "stopFiring", timeoutID_)
  /\ stoppedOutside' = (stoppedOutside \/ firing_)
  /\ UNCHANGED <<lineVars, pathVars, keepsInv, keepsCancelled, now, armed, tickD, t0, nInv, tickNo>>

\* the primitive runs the handler of a tick it holds
Tick ==
  \E h \in scheduled :
    LET r == TimerCallback([Cur EXCEPT !.scheduled = @ \ {h}]) IN
    /\ r.nextID <= MaxHandle + 1
    /\ Commit(r, "tick", h)
    /\ armed' = r.armed
    /\ stoppedOutside' = (stoppedOutside /\ ~r.idleStartInCb)
    /\ UNCHANGED <<lineVars, pathVars, keepsInv, keepsCancelled, now, tickD, t0, nInv, tickNo>>

\* the handler of a cancelled tick is run all the same (a primitive under
\* test that is made to fire by hand)
ForcedTick ==
  \E h \in cancelled :
    LET r == TimerCallback([Cur EXCEPT !.cancelled = @ \ {h}]) IN
    /\ r.nextID <= MaxHandle + 1
    /\ Commit(r, "forcedTick", h)
    /\ armed' = r.armed
    /\ stoppedOutside' = (stoppedOutside /\ ~r.idleStartInCb)
    /\ UNCHANGED <<lineVars, pathVars, keepsInv, keepsCancelled, now, tickD, t0, nInv, tickNo>>

\* the user program sets its callback's flag again
Rearm ==
  /\ ~armed
  /\ armed' = TRUE
  /\ last' = NoOp
  /\ UNCHANGED <<lineVars, pathVars, lastInv, keepsInv, timerVars, scheduled, cancelled, keepsCancelled, nextID, now, deltaPeriod,
                 everNonzero, stoppedOutside, tickD, t0, nInv, tickNo>>

AdvanceClock ==
  /\ now < MaxTime
  /\ now' = now + 1
  /\ last' = NoOp
  /\ UNCHANGED <<lineVars, pathVars, lastInv, keepsInv, timerVars, scheduled, cancelled, keepsCancelled, nextID, armed, deltaPeriod,
                 everNonzero, stoppedOutside, tickD, t0, nInv, tickNo>>

Next ==
  \/ DoSetPeriod
  \/ DoSetCallBack
  \/ DoStartFiring
  \/ DoStopFiring
  \/ Tick
  \/ Rearm
  \/ AdvanceClock

Spec == Init /\ [][Next]_vars

\* the same operations, with the time and the drift of the last invocation
\* recorded
InitSpacing ==
  InitTimer /\ InitPaths /\ InitLine /\ keepsCancelled = FALSE /\ keepsInv = TRUE

SpecSpacing == InitSpacing /\ [][Next]_vars

NextForced == Next \/ ForcedTick

SpecForced == InitForced /\ [][NextForced]_vars

-----------------------------------------------------------------------------
(* A Timer with a plain callback and a fixed period P, started at t0 and   *)
(* from then on driven by a primitive that fires the pending tick every d  *)
(* units of time, Eps < d <= P, nothing else being called.  The interval   *)
(* of a scheduling primitive (a frame, a timeout of whole milliseconds) is *)
(* longer than the 1e-7 s of Eps.                                          *)

InitFixed ==
  /\ InitPaths /\ InitLine
  /\ period_ \in (Eps + 1)..MaxFixedPeriod
  /\ tickD \in (Eps + 1)..period_
  /\ now \in 0..1
  /\ t0 = now
  /\ firing_ = FALSE
  /\ timeoutID_ = Undefined
  /\ callBack_ = "plain"
  /\ fired_sys_ = NaN
  /\ delta_ = 0
  /\ scheduled = {}
  /\ cancelled = {}
  /\ keepsCancelled = FALSE
  /\ keepsInv = FALSE /\ lastInv = NoInv
  /\ nextID = 1
  /\ armed = TRUE
  /\ deltaPeriod = period_
  /\ everNonzero = TRUE
  /\ stoppedOutside = FALSE
  /\ last = NoOp
  /\ nInv = 0 /\ tickNo = 0

FixedStart ==
  /\ ~firing_
  /\ last.op = "none"
  /\ Commit(StartFiring(Cur), "startFiring", 0)
  /\ UNCHANGED <<lineVars, pathVars, keepsInv, keepsCancelled, now, armed, stoppedOutside, tickD, t0, nInv, tickNo>>

FixedTick ==
  /\ firing_
  /\ tickNo < MaxTicks
  /\ \E h \in scheduled :
       LET r == TimerCallback([Cur EXCEPT !.scheduled = @ \ {h},
                                          !.now = now + tickD]) IN
       /\ Commit(r, "tick", h)
       /\ now' = now + tickD
       /\ tickNo' = tickNo + 1
       /\ nInv' = nInv + r.calls
       /\ UNCHANGED <<lineVars, pathVars, keepsInv, keepsCancelled, armed, stoppedOutside, tickD, t0>>

NextFixed == FixedStart \/ FixedTick

SpecFixed == InitFixed /\ [][NextFixed]_vars

-----------------------------------------------------------------------------
(* The Timer left to run for ever: startFiring() once, with a callback     *)
(* that does nothing installed and the period fixed, then only the         *)
(* primitive delivering ticks and the clock advancing.  The handler reads  *)
(* the clock only to subtract fired_sys_ from it and the handles are       *)
(* opaque, so the state is kept finite by measuring time from the current  *)
(* reading of the clock (now stays 0 and an advance of the clock moves     *)
(* fired_sys_ back) and by numbering the pending handles from 1 again      *)
(* after each operation.  The primitive delivers a tick at the latest      *)
(* MaxLate after it is due.                                                *)

\* the pending handles numbered from 1 in their order, the Timer's handle
\* with them
Renumber(r) ==
  LET rank(h) == Cardinality({g \in r.scheduled : g <= h}) IN
  [r EXCEPT !.scheduled = {rank(h) : h \in r.scheduled},
            !.timeoutID_ = IF @ \in r.scheduled THEN rank(@) ELSE Undefined,
            !.nextID = Cardinality(r.scheduled) + 1]

InitLive ==
  /\ InitPaths /\ InitLine
  /\ period_ \in 0..MaxLivePeriod
  /\ callBack_ = "plain"
  /\ firing_ = FALSE
  /\ timeoutID_ = Undefined
  /\ fired_sys_ = NaN
  /\ delta_ = 0
  /\ scheduled = {}
  /\ cancelled = {}
  /\ keepsCancelled = FALSE
  /\ keepsInv = FALSE /\ lastInv = NoInv
  /\ nextID = 1
  /\ now = 0
  /\ armed = TRUE
  /\ deltaPeriod = period_
  /\ everNonzero = (period_ # 0)
  /\ stoppedOutside = FALSE
  /\ last = NoOp
  /\ tickD = 0 /\ t0 = 0 /\ nInv = 0 /\ tickNo = 0

\* startFiring(), once
LiveStart ==
  /\ ~firing_
  /\ last.op = "none"
  /\ LET r == StartFiring(Cur) IN
     /\ Commit(Renumber(r), "startFiring", 0)
     /\ nInv' = (nInv + r.calls) % 2
  /\ UNCHANGED <<lineVars, pathVars, keepsInv, keepsCancelled, now, armed, stoppedOutside, tickD, t0, tickNo>>

\* the primitive delivers a pending tick
LiveTick ==
  \E h \in scheduled :
    LET r == TimerCallback([Cur EXCEPT !.scheduled = @ \ {h}]) IN
    /\ Commit(Renumber(r), "tick", h)
    /\ nInv' = (nInv + r.calls) % 2
    /\ UNCHANGED <<lineVars, pathVars, keepsInv, keepsCancelled, now, armed, stoppedOutside, tickD, t0, tickNo>>

\* the clock advances by one unit: every time the Timer holds is one unit
\* further in the past
LiveAdvance ==
  /\ firing_
  /\ ~fired_sys_.nan
  /\ Elapsed(now, fired_sys_, delta_).v < period_ + MaxLate
  /\ fired_sys_' = Num(fired_sys_.v - 1)
  /\ UNCHANGED <<lineVars, pathVars, lastInv, keepsInv, period_, firing_, timeoutID_, callBack_, delta_,
                 scheduled, cancelled, keepsCancelled, nextID, now, armed,
                 deltaPeriod, everNonzero, stoppedOutside, last, tickD, t0,
                 nInv, tickNo>>

NextLive == LiveStart \/ LiveTick \/ LiveAdvance

\* the primitive eventually delivers a pending tick, the clock keeps advancing
SpecLive ==
  InitLive /\ [][NextLive]_vars /\ WF_vars(LiveTick) /\ WF_vars(LiveAdvance)

-----------------------------------------------------------------------------
(* PathObserver.  The DisplayList, the DisplayPaths and the GenericObservers *)
(* are objects of other files: they are modelled by the calls PathObserver   *)
(* makes on them (find, add, remove; addPath, removePath, setScreenRect;     *)
(* disconnect), with the meaning their names and the comments of            *)
(* PathObserver.js give them.                                               *)

\* the PathObserver and the objects it reaches, as one record
CurPaths ==
  [displayList_ |-> displayList_, memObjs_ |-> memObjs_,
   displayPaths |-> displayPaths, observers |-> observers,
   screenRect |-> screenRect, simRect |-> simRect, hasSetter |-> hasSetter]

\* a sequence without the elements equal to x
SeqRemove(seq, x) == SelectSeq(seq, LAMBDA e : e # x)

\* a sequence without its i-th element
SeqRemoveAt(seq, i) ==
  [j \in 1..(Len(seq) - 1) |-> IF j < i THEN seq[j] ELSE seq[j + 1]]

\* DisplayList.find(np): the first DisplayObject of the list that shows np,
\* or NotFound
NotFound == 0
Find(ps, np) ==
  LET hits == {i \in 1..Len(ps.displayList_) :
                 np \in ps.displayPaths[ps.displayList_[i]].paths}
  IN IF hits = {} THEN NotFound
     ELSE ps.displayList_[CHOOSE i \in hits : \A j \in hits : i <= j]

\* np.getBoundsWorld().scale(f).isEmpty(): the even-numbered paths are the
\* ones with empty bounds
BoundsEmpty(np) == np % 2 = 0

\* addPath without the look-up in the DisplayList
AddPath_NoFind(ps, np) ==
  LET id == Len(ps.displayPaths) + 1
      obsId == Len(ps.observers) + 1
  IN [ps EXCEPT
        !.displayPaths = Append(@, [paths |-> {np}, screenRect |-> ps.screenRect]),
        !.displayList_ = Append(@, id),
        !.simRect = IF ps.hasSetter
                    THEN [path |-> np, unit |-> BoundsEmpty(np)] ELSE @,
        !.observers = Append(@, [dispPath |-> id, connected |-> TRUE]),
        !.memObjs_ = Append(@, [simObj |-> np, obs |-> obsId, dispPath |-> id])]

\* PathObserver.prototype.addPath
AddPath(ps, np) ==
  IF Find(ps, np) # NotFound THEN ps
  ELSE LET id == Len(ps.displayPaths) + 1
           obsId == Len(ps.observers) + 1
       IN [ps EXCEPT
             !.displayPaths = Append(@, [paths |-> {np},
                                         screenRect |-> ps.screenRect]),
             !.displayList_ = Append(@, id),
             !.simRect = IF ps.hasSetter
                         THEN [path |-> np, unit |-> BoundsEmpty(np)] ELSE @,
             !.observers = Append(@, [dispPath |-> id, connected |-> TRUE]),
             !.memObjs_ = Append(@, [simObj |-> np, obs |-> obsId,
                                     dispPath |-> id])]

\* removePath leaving the GenericObserver connected
RemovePath_NoDisconnect(ps, np) ==
  LET hits == {i \in 1..Len(ps.memObjs_) : ps.memObjs_[i].simObj = np} IN
  IF hits = {} THEN ps
  ELSE LET i == CHOOSE i \in hits : \A j \in hits : i <= j
           memObj == ps.memObjs_[i]
       IN [ps EXCEPT
             !.displayList_ = SeqRemove(@, memObj.dispPath),
             !.displayPaths[memObj.dispPath].paths = @ \ {np},
             !.memObjs_ = SeqRemoveAt(@, i)]

\* PathObserver.prototype.removePath
RemovePath(ps, np) ==
  LET hits == {i \in 1..Len(ps.memObjs_) : ps.memObjs_[i].simObj = np} IN
  IF hits = {} THEN ps
  ELSE LET i == CHOOSE i \in hits : \A j \in hits : i <= j
           memObj == ps.memObjs_[i]
       IN [ps EXCEPT
             !.displayList_ = SeqRemove(@, memObj.dispPath),
             !.observers[memObj.obs].connected = FALSE,
             !.displayPaths[memObj.dispPath].paths = @ \ {np},
             !.memObjs_ = SeqRemoveAt(@, i)]

\* PathObserver.prototype.observe
Observe(ps, event) ==
  IF event.subject = "simList" /\ event.value \in Paths
  THEN IF event.name = "OBJECT_ADDED" THEN AddPath(ps, event.value)
       ELSE IF event.name = "OBJECT_REMOVED" THEN RemovePath(ps, event.value)
       ELSE ps
  ELSE ps

\* the closure addPath gives its GenericObserver: on SCREEN_RECT_CHANGED every
\* connected observer copies the SimView's screen rectangle to its DisplayPath
ScreenRectObservers(ps) ==
  [ps EXCEPT !.displayPaths =
     [d \in 1..Len(@) |->
        IF \E o \in 1..Len(ps.observers) :
             ps.observers[o].connected /\ ps.observers[o].dispPath = d
        THEN [@[d] EXCEPT !.screenRect = ps.screenRect]
        ELSE @[d]]]

CommitPaths(ps) ==
  /\ displayList_' = ps.displayList_
  /\ memObjs_' = ps.memObjs_
  /\ displayPaths' = ps.displayPaths
  /\ observers' = ps.observers
  /\ screenRect' = ps.screenRect
  /\ simRect' = ps.simRect
  /\ hasSetter' = ps.hasSetter

\* new PathObserver(simList, simView, simRectSetter): the setter may be null
InitPathObserver ==
  /\ InitTimer /\ keepsCancelled = FALSE /\ keepsInv = FALSE /\ InitLine
  /\ displayList_ = <<>>
  /\ memObjs_ = <<>>
  /\ displayPaths = <<>>
  /\ observers = <<>>
  /\ screenRect = 0
  /\ simRect = NoRect
  /\ hasSetter \in BOOLEAN
  /\ lastEvent = [np \in Paths |-> "none"]
  /\ observed = NoEvent

EventNames == {"OBJECT_ADDED", "OBJECT_REMOVED", "OBJECT_MODIFIED"}

\* a Subject calls observe(event); only the SimList's events about
\* NumericalPaths are the PathObserver's business
DoObserve ==
  \E subject \in {"simList", "other"}, name \in EventNames,
     value \in Paths \cup {NotAPath} :
    LET event == [subject |-> subject, name |-> name, value |-> value]
        ps == Observe(CurPaths, event)
    IN /\ Len(ps.displayPaths) <= MaxDisplayPaths
       /\ CommitPaths(ps)
       /\ lastEvent' = IF subject = "simList" /\ value \in Paths
                          /\ name \in {"OBJECT_ADDED", "OBJECT_REMOVED"}
                       THEN [lastEvent EXCEPT ![value] = name]
                       ELSE lastEvent
       /\ observed' = [subject |-> subject, name |-> name, value |-> value,
                       shown |-> Find(CurPaths, value) # NotFound]
       /\ UNCHANGED <<timerAll, lineVars>>

\* the SimView changes its screen rectangle and broadcasts SCREEN_RECT_CHANGED
ScreenRectChanged ==
  /\ CommitPaths(ScreenRectObservers([CurPaths EXCEPT !.screenRect = 1 - @]))
  /\ UNCHANGED <<timerAll, lineVars, lastEvent, observed>>

NextPaths == DoObserve \/ ScreenRectChanged

SpecPaths == InitPathObserver /\ [][NextPaths]_vars

-----------------------------------------------------------------------------
(* DisplayLine.  A DisplayLine is the record of its fields; line_ holds the *)
(* Line it displays, a Line being its start point and its end point.        *)

CurLine == [line_ |-> line_]

\* Vector.add and Vector.multiply(0.5)
VecAdd(a, b) == <<a[1] + b[1], a[2] + b[2]>>
VecSub(a, b) == <<a[1] - b[1], a[2] - b[2]>>
VecHalf(a) == <<a[1] \div 2, a[2] \div 2>>

\* DisplayLine.prototype.contains
Contains(dl, point) == FALSE

\* DisplayLine.prototype.isDragable
IsDragable(dl) == FALSE

\* DisplayLine.prototype.getPosition
GetPosition(dl) == VecHalf(VecAdd(dl.line_.start, dl.line_.end))

\* setDragable: does nothing
SetDragable(dl, dragable) == dl

\* setPosition moving the Line so that its midpoint is the position given
SetPosition_MovesLine(dl, position) ==
  LET by == VecSub(position, GetPosition(dl)) IN
  [dl EXCEPT !.line_ = [start |-> VecAdd(@.start, by),
                        end |-> VecAdd(@.end, by)]]

\* DisplayLine.prototype.setPosition: empty
SetPosition(dl, position) == dl

DoSetPosition ==
  \E position \in Points :
    /\ line_' = SetPosition(CurLine, position).line_
    /\ lineOp' = [op |-> "setPosition", point |-> position, flag |-> FALSE]
    /\ UNCHANGED <<timerAll, pathVars, displayLines, styleOp>>

DoSetDragable ==
  \E dragable \in BOOLEAN :
    /\ line_' = SetDragable(CurLine, dragable).line_
    /\ lineOp' = [op |-> "setDragable", point |-> Origin, flag |-> dragable]
    /\ UNCHANGED <<timerAll, pathVars, displayLines, styleOp>>

\* the simulation moves the Line
MoveLine ==
  \E s \in Points, e \in Points :
    /\ line_' = [start |-> s, end |-> e]
    /\ line_' # line_
    /\ lineOp' = [op |-> "moveLine", point |-> Origin, flag |-> FALSE]
    /\ UNCHANGED <<timerAll, pathVars, displayLines, styleOp>>

InitDisplayLine ==
  /\ InitTimer /\ keepsCancelled = FALSE /\ keepsInv = FALSE /\ InitPaths
  /\ \E s \in Points, e \in Points : line_ = [start |-> s, end |-> e]
  /\ lineOp = NoLineOp
  /\ displayLines = <<>>
  /\ styleOp = NoStyleOp

NextLine == DoSetPosition \/ DoSetDragable \/ MoveLine

SpecLine == InitDisplayLine /\ [][NextLine]_vars

-----------------------------------------------------------------------------
(* The style of a DisplayLine.  dls is the sequence of the DisplayLines    *)
(* made so far and i the number of the one the method is called on; a      *)
(* field is the empty set when undefined and {v} when it holds v.          *)

TheValue(field) == CHOOSE v \in field : TRUE

\* the values the setters are given: undefined or a value
Colors == {{}, {"red"}}
Thicknesses == {{}, {2}}
LineDashes == {{}, {<<3, 5>>}}
ZIndexes == {{}, {-1}}

RECURSIVE GetColor(_, _), GetLineDash(_, _), GetThickness(_, _), GetZIndex(_, _)

\* DisplayLine.prototype.getColor
GetColor(dls, i) ==
  IF dls[i].color_ # {} THEN TheValue(dls[i].color_)
  ELSE IF dls[i].proto_ # NoProto THEN GetColor(dls, dls[i].proto_)
  ELSE "gray"

\* DisplayLine.prototype.getLineDash
GetLineDash(dls, i) ==
  IF dls[i].lineDash_ # {} THEN TheValue(dls[i].lineDash_)
  ELSE IF dls[i].proto_ # NoProto THEN GetLineDash(dls, dls[i].proto_)
  ELSE <<>>

\* DisplayLine.prototype.getThickness
GetThickness(dls, i) ==
  IF dls[i].thickness_ # {} THEN TheValue(dls[i].thickness_)
  ELSE IF dls[i].proto_ # NoProto THEN GetThickness(dls, dls[i].proto_)
  ELSE 4

\* getZIndex without the look at the prototype
GetZIndex_OwnOnly(dls, i) ==
  IF dls[i].zIndex_ # {} THEN TheValue(dls[i].zIndex_) ELSE 0

\* DisplayLine.prototype.getZIndex
GetZIndex(dls, i) ==
  IF dls[i].zIndex_ # {} THEN TheValue(dls[i].zIndex_)
  ELSE IF dls[i].proto_ # NoProto THEN GetZIndex(dls, dls[i].proto_)
  ELSE 0

\* the setters
SetColor(dls, i, color) == [dls EXCEPT ![i].color_ = color]
SetLineDash(dls, i, lineDash) == [dls EXCEPT ![i].lineDash_ = lineDash]
SetThickness(dls, i, thickness) == [dls EXCEPT ![i].thickness_ = thickness]
SetZIndex(dls, i, zIndex) == [dls EXCEPT ![i].zIndex_ = zIndex]

\* new DisplayLine(line, proto): the style fields undefined
NewDisplayLine(dls, proto) ==
  Append(dls, [color_ |-> {}, thickness_ |-> {}, lineDash_ |-> {},
               zIndex_ |-> {}, proto_ |-> proto])

DoNewDisplayLine ==
  /\ Len(displayLines) < MaxDisplayLines
  /\ \E proto \in {NoProto} \cup (1..Len(displayLines)) :
       displayLines' = NewDisplayLine(displayLines, proto)
  /\ styleOp' = NoStyleOp
  /\ UNCHANGED <<timerAll, pathVars, line_, lineOp>>

DoSetColor ==
  \E i \in 1..Len(displayLines), color \in Colors :
    /\ displayLines' = SetColor(displayLines, i, color)
    /\ styleOp' = IF color = {} /\ displayLines[i].color_ # {}
                  THEN "color_" ELSE NoStyleOp
    /\ UNCHANGED <<timerAll, pathVars, line_, lineOp>>

DoSetLineDash ==
  \E i \in 1..Len(displayLines), lineDash \in LineDashes :
    /\ displayLines' = SetLineDash(displayLines, i, lineDash)
    /\ styleOp' = IF lineDash = {} /\ displayLines[i].lineDash_ # {}
                  THEN "lineDash_" ELSE NoStyleOp
    /\ UNCHANGED <<timerAll, pathVars, line_, lineOp>>

DoSetThickness ==
  \E i \in 1..Len(displayLines), thickness \in Thicknesses :
    /\ displayLines' = SetThickness(displayLines, i, thickness)
    /\ styleOp' = IF thickness = {} /\ displayLines[i].thickness_ # {}
                  THEN "thickness_" ELSE NoStyleOp
    /\ UNCHANGED <<timerAll, pathVars, line_, lineOp>>

DoSetZIndex ==
  \E i \in 1..Len(displayLines), zIndex \in ZIndexes :
    /\ displayLines' = SetZIndex(displayLines, i, zIndex)
    /\ styleOp' = IF zIndex = {} /\ displayLines[i].zIndex_ # {}
                  THEN "zIndex_" ELSE NoStyleOp
    /\ UNCHANGED <<timerAll, pathVars, line_, lineOp>>

InitStyle ==
  InitTimer /\ InitPaths /\ InitLine /\ keepsCancelled = FALSE /\ keepsInv = FALSE

NextStyle ==
  \/ DoNewDisplayLine
  \/ DoSetColor
  \/ DoSetLineDash
  \/ DoSetThickness
  \/ DoSetZIndex

SpecStyle == InitStyle /\ [][NextStyle]_vars

-----------------------------------------------------------------------------
(* C21: each of getColor, getThickness, getLineDash and getZIndex returns  *)
(* the value of the first DisplayLine that has the property defined, going *)
(* from the object along its prototypes, and the default ('gray', 4, the   *)
(* empty array, 0) when none has; the chain is acyclic (a prototype is     *)
(* older than the object).  A setter on one object leaves unchanged what   *)
(* each of its prototypes returns, and setting a property to undefined     *)
(* makes its getter return what the prototype returns, or the default      *)
(* when there is no prototype.                                             *)
RECURSIVE ProtoChain(_, _)
ProtoChain(dls, i) ==
  IF dls[i].proto_ = NoProto THEN <<i>>
  ELSE <<i>> \o ProtoChain(dls, dls[i].proto_)

Resolved(dls, i, field, default) ==
  LET chain == ProtoChain(dls, i)
      set == {k \in 1..Len(chain) : dls[chain[k]][field] # {}}
  IN IF set = {} THEN default
     ELSE TheValue(dls[chain[CHOOSE k \in set : \A m \in set : k <= m]][field])

Styles(dls, i) ==
  <<GetColor(dls, i), GetThickness(dls, i), GetLineDash(dls, i),
    GetZIndex(dls, i)>>

C21_StyleInherited ==
  /\ [](\A i \in 1..Len(displayLines) :
          /\ displayLines[i].proto_ < i
          /\ GetColor(displayLines, i)
               = Resolved(displayLines, i, "color_", "gray")
          /\ GetThickness(displayLines, i)
               = Resolved(displayLines, i, "thickness_", 4)
          /\ GetLineDash(displayLines, i)
               = Resolved(displayLines, i, "lineDash_", <<>>)
          /\ GetZIndex(displayLines, i)
               = Resolved(displayLines, i, "zIndex_", 0))
  /\ [][\A i \in 1..Len(displayLines) :
          (displayLines'[i] # displayLines[i]) =>
            /\ \A k \in 2..Len(ProtoChain(displayLines, i)) :
                 Styles(displayLines', ProtoChain(displayLines, i)[k])
                   = Styles(displayLines, ProtoChain(displayLines, i)[k])
            /\ LET p == displayLines[i].proto_
                   was == displayLines[i]
                   is == displayLines'[i]
               IN /\ (was.color_ # {} /\ is.color_ = {}) =>
                       GetColor(displayLines', i)
                         = IF p = NoProto THEN "gray"
                           ELSE GetColor(displayLines', p)
                  /\ (was.thickness_ # {} /\ is.thickness_ = {}) =>
                       GetThickness(displayLines', i)
                         = IF p = NoProto THEN 4
                           ELSE GetThickness(displayLines', p)
                  /\ (was.lineDash_ # {} /\ is.lineDash_ = {}) =>
                       GetLineDash(displayLines', i)
                         = IF p = NoProto THEN <<>>
                           ELSE GetLineDash(displayLines', p)
                  /\ (was.zIndex_ # {} /\ is.zIndex_ = {}) =>
                       GetZIndex(displayLines', i)
                         = IF p = NoProto THEN 0
                           ELSE GetZIndex(displayLines', p)]_vars

\* the z-index of a DisplayLine has been set back to undefined: the object
\* has its own colour, and its z-index and thickness are its prototype's
C21_Witness ==
  /\ styleOp = "zIndex_"
  /\ \E i \in 1..Len(displayLines) :
       /\ displayLines[i].zIndex_ = {}
       /\ displayLines[i].proto_ # NoProto
       /\ displayLines[i].color_ # {}
       /\ displayLines[displayLines[i].proto_].color_ = {}
       /\ displayLines[displayLines[i].proto_].zIndex_ # {}
       /\ GetZIndex(displayLines, i) = -1
       /\ GetThickness(displayLines, i) = 2
       /\ GetColor(displayLines, i) = "red"
       /\ GetColor(displayLines, displayLines[i].proto_) = "gray"

-----------------------------------------------------------------------------
(* C14: setPosition and setDragable have no effect on a DisplayLine: after  *)
(* either the Line is where it was, and at all times isDragable() is false, *)
(* contains(point) is false for every point, and getPosition() is the       *)
(* midpoint of the Line's current start and end points (twice the position  *)
(* is their sum).                                                          *)
C14_PositionFollowsLine ==
  /\ [](/\ ~IsDragable(CurLine)
        /\ \A point \in Points : ~Contains(CurLine, point)
        /\ VecAdd(GetPosition(CurLine), GetPosition(CurLine))
             = VecAdd(line_.start, line_.end))
  /\ [][(lineOp'.op \in {"setPosition", "setDragable"}) => line_' = line_]_vars

\* setPosition was given a point that is not the midpoint of the Line, which
\* is not at its initial place and has two different ends
C14_Witness ==
  /\ lineOp.op = "setPosition"
  /\ lineOp.point # GetPosition(CurLine)
  /\ line_.start # line_.end
  /\ GetPosition(CurLine) # Origin

-----------------------------------------------------------------------------
(* C13: the DisplayList holds exactly one DisplayPath for every            *)
(* NumericalPath whose latest event from the observed SimList was          *)
(* OBJECT_ADDED, and none for a NumericalPath whose latest event was       *)
(* OBJECT_REMOVED (or that had no event); in particular an OBJECT_ADDED    *)
(* for a path that is already displayed adds nothing.                      *)
Shown(np) ==
  {i \in 1..Len(displayList_) : np \in displayPaths[displayList_[i]].paths}

C13_OneDisplayPathPerAddedPath ==
  \A np \in Paths :
    Cardinality(Shown(np)) = IF lastEvent[np] = "OBJECT_ADDED" THEN 1 ELSE 0

\* a path was removed and added again, and then OBJECT_ADDED came once more
\* while it was displayed; the other path's latest event is its removal
C13_Witness ==
  /\ observed.subject = "simList" /\ observed.name = "OBJECT_ADDED"
  /\ observed.value \in Paths /\ observed.shown
  /\ Len(displayPaths) = MaxDisplayPaths
  /\ Len(displayList_) = 1
  /\ \E np \in Paths : lastEvent[np] = "OBJECT_REMOVED"

-----------------------------------------------------------------------------
(* C1: once stopFiring() has been called while firing, from outside the    *)
(* callback, the tick that was pending is cancelled (the Timer holds no    *)
(* handle and the primitive no longer holds that tick), and no operation   *)
(* invokes the callback until startFiring() is called again, not even a    *)
(* run of the cancelled tick's handler.  Checked under SpecForced, where   *)
(* the primitive may run the handler of a cancelled tick.                  *)
C1_StopCancelsAndSilences ==
  stoppedOutside =>
    /\ last.calls = 0
    /\ (last.op = "stopFiring" =>
          timeoutID_ = Undefined /\ last.arg \notin scheduled)

C1_Witness ==
  /\ stoppedOutside
  /\ last.op = "forcedTick"
  /\ callBack_ # Null
  /\ last.calls = 0

(* C2: stopFiring() stops the Timer whenever it is called, also when the   *)
(* callback calls it during a tick: while isFiring() is false no tick is   *)
(* held or pending, and the callback is never invoked while isFiring() is  *)
(* false.                                                                  *)
C2_StopAlwaysStops ==
  /\ (~firing_) => (timeoutID_ = Undefined /\ scheduled = {})
  /\ ~last.idleCall

(* C3: whenever no Timer method is executing, isFiring() = false implies   *)
(* that no tick handle is held.                                            *)
C3_IdleHoldsNoHandle == (~firing_) => timeoutID_ = Undefined

(* C4: at most one tick scheduled by the Timer is outstanding in the       *)
(* primitive at any time.                                                  *)
C4_AtMostOneOutstanding == Cardinality(scheduled) <= 1

(* C5, as claimed: no invocation of the callback begins while another is   *)
(* still executing.                                                        *)
C5_NoNesting == last.maxDepth <= 1

(* C5, amended: an invocation of the callback begins while another is      *)
(* executing only inside a startFiring() that the executing callback calls *)
(* while isFiring() is false; in every other operation the invocations are *)
(* sequential.                                                             *)
C5_NestingOnlyByIdleStart == last.maxDepth > 1 => last.idleStartInCb

C5_Witness == last.maxDepth = 2 /\ last.calls = 2 /\ last.idleStartInCb

(* C6, as claimed: 0 <= drift < period whenever period > 0, and drift = 0  *)
(* whenever period = 0, in every reachable state.                          *)
C6_DriftBelowPeriod ==
  /\ period_ > 0 => (0 <= delta_ /\ delta_ < period_)
  /\ period_ = 0 => delta_ = 0

(* C6, amended: drift >= 0 in every reachable state, and drift is below    *)
(* the period that was in force when drift was last written (0 if that     *)
(* period was 0); so 0 <= drift < period holds in every state in which     *)
(* setPeriod has not changed the period since.                             *)
C6_DriftBelowPeriodAtWrite ==
  /\ 0 <= delta_
  /\ deltaPeriod > 0 => delta_ < deltaPeriod
  /\ deltaPeriod = 0 => delta_ = 0
  /\ deltaPeriod = period_ => C6_DriftBelowPeriod

C6_Witness ==
  /\ last.op = "tick" /\ last.calls = 1
  /\ period_ = deltaPeriod
  /\ 0 < delta_ /\ delta_ < period_

(* C7: setPeriod(p) with p < 0 throws and changes no field of the Timer    *)
(* and nothing in the primitive, and period >= 0 in every reachable state. *)
C7_NegativePeriodRejected ==
  /\ [](period_ >= 0)
  /\ [][(last'.op = "setPeriod" /\ last'.arg < 0) =>
          (last'.threw /\ UNCHANGED <<timerVars, scheduled, nextID>>)]_vars

C7_Witness ==
  /\ last.op = "setPeriod" /\ last.arg < 0 /\ last.threw
  /\ firing_ /\ timeoutID_ \in scheduled /\ period_ > 0

C9_FixedRate ==
  (last.op = "tick") =>
    /\ last.calls <= 1
    /\ (period_ % tickD = 0) =>
          (last.calls = 1 <=> tickNo % (period_ \div tickD) = 0)
    /\ (last.calls = 1) =>
          /\ now < t0 + nInv * period_ + tickD
          /\ now >= t0 + nInv * period_ - Eps
    /\ now < t0 + (nInv + 1) * period_ + tickD
    /\ delta_ <= tickD

C9_Witness ==
  /\ last.op = "tick" /\ last.calls = 1 /\ nInv >= 2
  /\ period_ % tickD # 0 /\ delta_ > 0

(* C10: while the period has been 0 throughout, every run of the tick      *)
(* handler that begins while firing with a callback installed invokes the  *)
(* callback (once), and drift is 0.                                        *)
C10_ZeroPeriodEveryTick ==
  (~everNonzero) => (last.fcalls = last.fruns /\ delta_ = 0)

C10_Witness ==
  /\ ~everNonzero /\ last.op = "tick" /\ last.preFiring
  /\ last.fruns = 1 /\ last.fcalls = 1 /\ last.calls = 1

C12_StartWhileFiringNoOp ==
  [][(last'.op = "startFiring" /\ firing_) =>
       /\ last'.calls = 0
       /\ UNCHANGED <<timerVars, scheduled, nextID>>]_vars

C12_Witness ==
  /\ last.op = "startFiring" /\ last.preFiring /\ last.preCb
  /\ firing_ /\ scheduled = {timeoutID_}

-----------------------------------------------------------------------------
-----------------------------------------------------------------------------
(* C16: once startFiring() has been called with a callback installed and   *)
(* the period fixed, and stopFiring and setCallBack are never called, the  *)
(* callback is invoked infinitely often, provided the primitive delivers   *)
(* every pending tick and the clock keeps advancing.  nInv is the parity   *)
(* of the number of invocations: it is 0 again and again and 1 again and   *)
(* again.  Checked under SpecLive.                                         *)
C16_InvokedInfinitelyOften ==
  [](firing_ => (<>(nInv = 0) /\ <>(nInv = 1)))

\* a tick of the running chain has invoked the callback, late by less than
\* a period, as an odd-numbered invocation
C16_Witness ==
  /\ firing_ /\ last.op = "tick" /\ last.calls = 1
  /\ period_ > 1 /\ delta_ > 0 /\ nInv = 1

-----------------------------------------------------------------------------
(* C17: setPeriod(p) with p >= 0 changes only the period: firing, callback,*)
(* lastFiredAt, drift and the pending handle are unchanged, no tick is     *)
(* scheduled or cancelled, the callback is not invoked; and a tick that    *)
(* follows a setPeriod made while firing invokes the callback exactly when *)
(* the time since the unchanged baseline (fired_sys_ - delta_) is at least *)
(* the new period.                                                         *)
C17_SetPeriodChangesOnlyPeriod ==
  /\ [][(last'.op = "setPeriod" /\ last'.arg >= 0) =>
          /\ period_' = last'.arg
          /\ ~last'.threw
          /\ last'.calls = 0
          /\ UNCHANGED <<firing_, callBack_, fired_sys_, delta_, timeoutID_,
                         scheduled, nextID>>]_vars
  /\ [][(last.op = "setPeriod" /\ last'.op = "tick" /\ firing_
          /\ callBack_ # Null) =>
          ((last'.calls >= 1) <=>
             (~fired_sys_.nan
                /\ now - (fired_sys_.v - delta_) >= period_))]_vars

\* setPeriod was called while firing and gave a period other than the one
\* the drift was computed with
C17_Witness ==
  /\ last.op = "setPeriod" /\ last.arg >= 0 /\ last.preFiring /\ firing_
  /\ period_ = last.arg /\ deltaPeriod # period_
  /\ delta_ > 0 /\ scheduled = {timeoutID_}

-----------------------------------------------------------------------------
(* C18: stopFiring() called while the Timer is not firing is a no-op: it   *)
(* issues no cancel to the primitive (it holds no handle to cancel) and    *)
(* leaves period, callback, firing, lastFiredAt, drift and the pending     *)
(* handle unchanged; called while firing it sets firing false, cancels and *)
(* clears the pending handle, sets lastFiredAt undefined and drift 0.      *)
(* The code does not do the first: stopFiring has no test of firing_, and  *)
(* after a callback has called stopFiring() the Timer is not firing but    *)
(* holds a handle, a baseline and a drift, which the next stopFiring()     *)
(* cancels and resets.                                                     *)
C18_StopFiringNoOpWhenIdle ==
  [][(last'.op = "stopFiring") =>
       IF ~firing_
       THEN /\ last'.arg = Undefined
            /\ UNCHANGED <<timerVars, scheduled>>
       ELSE /\ ~firing_'
            /\ timeoutID_' = Undefined
            /\ timeoutID_ \notin scheduled'
            /\ fired_sys_' = NaN
            /\ delta_' = 0]_vars

-----------------------------------------------------------------------------
(* C19: a tick whose elapsed time, now - (lastFiredAt - drift), is less    *)
(* than the period is skipped: the callback is not invoked, lastFiredAt,   *)
(* drift, period, firing and callback are unchanged, and the only effect   *)
(* is that the next tick is scheduled and the pending handle replaced.     *)
(* Hence two consecutive callback invocations are never closer than        *)
(* period - drift apart, with drift the value stored after the earlier     *)
(* one.  The code does not do this: startFiring() invokes at once, however *)
(* recent the last invocation.                                             *)
C19_SkipAndSpacing ==
  /\ [][(last'.op = "tick" /\ ~fired_sys_.nan
          /\ now - (fired_sys_.v - delta_) < period_) =>
          /\ last'.calls = 0
          /\ UNCHANGED <<fired_sys_, delta_, period_, firing_, callBack_>>
          /\ timeoutID_' \notin scheduled
          /\ scheduled' = (scheduled \ {last'.arg}) \cup {timeoutID_'}]_vars
  /\ [][(last'.calls >= 1 /\ lastInv.some) =>
          now - lastInv.at >= period_ - lastInv.delta]_vars

(* C19, as the code has it: a tick whose elapsed time is less than the     *)
(* period invokes nothing and leaves lastFiredAt, drift, period, firing    *)
(* and callback unchanged; with a callback installed its only effect is    *)
(* that the next tick is scheduled and the pending handle replaced, with   *)
(* none installed it has no effect at all.  Two consecutive invocations of *)
(* which the later is made by a tick, lastFiredAt not having been reset in *)
(* between, are never closer than period - drift apart.                    *)
C19_SkipFrameAndTickSpacing ==
  /\ [][(last'.op = "tick" /\ ~fired_sys_.nan
          /\ now - (fired_sys_.v - delta_) < period_) =>
          /\ last'.calls = 0
          /\ UNCHANGED <<fired_sys_, delta_, period_, firing_, callBack_>>
          /\ IF callBack_ # Null
             THEN /\ timeoutID_' \notin scheduled
                  /\ scheduled' = (scheduled \ {last'.arg}) \cup {timeoutID_'}
             ELSE /\ timeoutID_' = timeoutID_
                  /\ scheduled' = scheduled \ {last'.arg}]_vars
  /\ [][(last'.op = "tick" /\ last'.calls >= 1 /\ lastInv.some
          /\ ~fired_sys_.nan) =>
          now - lastInv.at >= period_ - lastInv.delta]_vars

\* a tick has been skipped that came after an invocation, with a drift
\* stored, before the period was over
C19_Witness ==
  /\ last.op = "tick" /\ last.calls = 0 /\ last.preFiring /\ last.preCb
  /\ lastInv.some /\ lastInv.delta > 0
  /\ ~fired_sys_.nan /\ now - (fired_sys_.v - delta_) < period_
  /\ timeoutID_ \in scheduled

-----------------------------------------------------------------------------
(* C20: one run of the tick handler invokes the callback at most once,     *)
(* however many whole periods have passed since the baseline: an operation *)
(* never invokes more often than it runs the handler, and a tick with a    *)
(* callback that leaves the Timer alone invokes at most once.  With the    *)
(* period P > 0 unchanged, an invoking tick moves the baseline             *)
(* (fired_sys_ - delta_) forward by exactly k * P, k being elapsed         *)
(* divided by P, rounded down, and at least 1; so does the invocation made *)
(* by startFiring(), from the baseline startFiring sets.                   *)
C20_OneInvocationPerRun ==
  /\ [][/\ last'.calls <= last'.runs
        /\ (last'.op = "tick" /\ callBack_ = "plain") => last'.calls <= 1]_vars
  /\ [][(last'.op = "tick" /\ last'.calls >= 1 /\ ~fired_sys_.nan
          /\ period_ > 0 /\ period_' = period_) =>
          LET base == fired_sys_.v - delta_
              k == (now - base) \div period_
          IN /\ k >= 1
             /\ ~fired_sys_'.nan
             /\ (fired_sys_'.v - delta_') - base = k * period_]_vars
  /\ [][(last'.op = "startFiring" /\ last'.calls >= 1 /\ ~firing_
          /\ period_ > 0 /\ period_' = period_) =>
          LET base == now - period_ - Eps
              k == (now - base) \div period_
          IN /\ k >= 1
             /\ ~fired_sys_'.nan
             /\ (fired_sys_'.v - delta_') - base = k * period_]_vars

\* a tick has invoked the callback, once, after two whole periods or more
C20_Witness ==
  /\ last.op = "tick" /\ last.calls = 1 /\ last.runs = 1
  /\ period_ > 0 /\ ~last.preElapsed.nan
  /\ last.preElapsed.v >= 2 * period_

-----------------------------------------------------------------------------
(* C22: after any sequence of events observed, memObjs_ holds at most one  *)
(* entry per NumericalPath, the DisplayPath of every entry is in the       *)
(* display list, and the GenericObservers the PathObserver made that are   *)
(* still connected are as many as the entries of memObjs_; an              *)
(* OBJECT_REMOVED for a path that has no entry changes nothing.  The       *)
(* display list is changed by the PathObserver alone.                      *)
Connected == {o \in 1..Len(observers) : observers[o].connected}

C22_MemObjsMatchDisplay ==
  /\ [](/\ \A np \in Paths :
             Cardinality({i \in 1..Len(memObjs_) : memObjs_[i].simObj = np}) <= 1
        /\ \A i \in 1..Len(memObjs_) :
             /\ \E k \in 1..Len(displayList_) :
                  displayList_[k] = memObjs_[i].dispPath
             /\ memObjs_[i].obs \in Connected
             /\ observers[memObjs_[i].obs].dispPath = memObjs_[i].dispPath
        /\ Cardinality(Connected) = Len(memObjs_))
  /\ [][(/\ observed' # observed
         /\ observed'.name = "OBJECT_REMOVED"
         /\ \A i \in 1..Len(memObjs_) : memObjs_[i].simObj # observed'.value) =>
          UNCHANGED <<displayList_, memObjs_, displayPaths, observers,
                      screenRect, simRect>>]_vars

\* a path that was displayed has been removed while the other path is
\* displayed: one observer is disconnected, one is connected and remembered
C22_Witness ==
  /\ observed.subject = "simList" /\ observed.name = "OBJECT_REMOVED"
  /\ observed.shown
  /\ Len(observers) = 2 /\ Cardinality(Connected) = 1
  /\ Len(memObjs_) = 1 /\ Len(displayList_) = 1

=============================================================================
